---- MODULE Spec2Model ----
(***************************************************************************)
(* Model of the rust_raylib_render timeline engine and frame pipelines.    *)
(*                                                                         *)
(*   - scene/animation.rs : Easing, Keyframe, Lerp, Track                  *)
(*   - timeline/clip.rs   : Clip                                           *)
(*   - backend/raylib_render.rs : RaylibRender::render_timeline_rgba_...   *)
(*   - main.rs, config.rs, encoder/ffmpeg.rs : the bouncing-ball main loop *)
(*     streaming frames into an ffmpeg child process                       *)
(*                                                                         *)
(* An f32 is the record [s, m, e] standing for (-1)^s * m * 2^e, with m    *)
(* the 24-bit significand: 2^23 <= m < 2^24 and -149 <= e <= 104 for a     *)
(* normal value, m < 2^23 and e = -149 for a subnormal one and for zero.   *)
(* e = 105 marks an infinity (m = 0) or NaN (m # 0).  Every arithmetic     *)
(* result is rounded to nearest, ties to even, as the hardware does.  The  *)
(* sign of zero is not kept (no code path modelled here tells -0.0 from    *)
(* 0.0).                                                                   *)
(*                                                                         *)
(* A u32 is the record [hi, lo] of its two 16-bit halves, hi * 2^16 + lo,  *)
(* so that values up to u32::MAX are representable.                        *)
(***************************************************************************)
EXTENDS Integers, Sequences, FiniteSets, TLC

(***************************************************************************)
(* Bounds of the explored input space.                                     *)
(***************************************************************************)
\* grid times are the f32 values nearest to k / TimeDen
TimeDen == 2
\* largest grid index of a pipeline / clip time (MaxTicks / TimeDen seconds)
MaxTicks == 4
\* largest frames-per-second value of a grid Timeline or Config
MaxFps == 3
\* largest Config.duration_secs
MaxDurSecs == 2
\* longest keyframe list handed to Track::new
MaxKeys == 3
\* largest grid index of a keyframe time
MaxKeyTicks == 2

(***************************************************************************)
(* u32                                                                     *)
(***************************************************************************)
\* the u32 of a small natural number
U32(n) == [hi |-> n \div 65536, lo |-> n % 65536]
\* the natural number of a u32 below 2^31
U32Int(a) == a.hi * 65536 + a.lo
U32Max == [hi |-> 65535, lo |-> 65535]
U32Lt(a, b) == a.hi < b.hi \/ (a.hi = b.hi /\ a.lo < b.lo)
U32Ge(a, b) == ~U32Lt(a, b)
\* a + 1 for a < u32::MAX
U32Succ(a) ==
    IF a.lo < 65535 THEN [hi |-> a.hi, lo |-> a.lo + 1]
    ELSE [hi |-> a.hi + 1, lo |-> 0]
\* a - b for a >= b
U32Sub(a, b) ==
    IF a.lo >= b.lo THEN [hi |-> a.hi - b.hi, lo |-> a.lo - b.lo]
    ELSE [hi |-> a.hi - b.hi - 1, lo |-> a.lo + 65536 - b.lo]
\* the 32-bit product of two 16-bit halves
Mul16(x, y) ==
    LET p1 == (x \div 256) * y
        p0 == (x % 256) * y
        s == (p1 % 256) * 256 + p0
    IN  [hi |-> p1 \div 256 + s \div 65536, lo |-> s % 65536]
\* u32::saturating_mul: the product, or u32::MAX when it does not fit
SaturatingMul(a, b) ==
    IF a.hi > 0 /\ b.hi > 0 THEN U32Max
    ELSE LET x == IF a.hi > 0 THEN a ELSE b
             y == IF a.hi > 0 THEN b ELSE a
             top == Mul16(x.hi, y.lo)
             bot == Mul16(x.lo, y.lo)
         IN  IF top.hi > 0 \/ top.lo + bot.hi > 65535 THEN U32Max
             ELSE [hi |-> top.lo + bot.hi, lo |-> bot.lo]

(***************************************************************************)
(* f32                                                                     *)
(***************************************************************************)
RECURSIVE BitLen(_)
BitLen(n) == IF n = 0 THEN 0 ELSE 1 + BitLen(n \div 2)

F32Zero == [s |-> 0, m |-> 0, e |-> -149]
F32Inf(s) == [s |-> s, m |-> 0, e |-> 105]
F32NaN == [s |-> 0, m |-> 1, e |-> 105]
IsNaN(x) == x.e = 105 /\ x.m # 0
IsInf(x) == x.e = 105 /\ x.m = 0
IsZero(x) == x.e # 105 /\ x.m = 0

\* the f32 nearest to (-1)^s * (hi * 2^24 + lo + d) * 2^e, where 0 <= d < 1
\* and d > 0 exactly when `sticky`: the significand keeps the leading 24
\* bits (fewer below 2^-126), the dropped part rounds to nearest, ties to
\* even, and a result of 2^128 or more is an infinity
F32Round(s, hi, lo, sticky, e) ==
    IF hi = 0 /\ lo = 0 THEN F32Zero
    ELSE
    LET len == IF hi > 0 THEN 24 + BitLen(hi) ELSE BitLen(lo)
        shift == IF e + (len - 24) < -149 THEN -149 - e ELSE len - 24
    IN  IF shift > len THEN F32Zero
        ELSE
        LET k == shift - 24
            q == IF shift <= 0 THEN lo * 2^(-shift)
                 ELSE IF shift <= 24 THEN hi * 2^(24 - shift) + lo \div 2^shift
                 ELSE hi \div 2^k
            r == IF shift <= 0 THEN 0
                 ELSE IF shift <= 24 THEN lo % 2^shift
                 ELSE hi % 2^k
            h == IF shift <= 0 THEN 1
                 ELSE IF shift <= 24 THEN 2^(shift - 1)
                 ELSE 2^(k - 1)
            below == IF 0 < shift /\ shift <= 24 THEN sticky ELSE (lo > 0 \/ sticky)
            up == shift > 0 /\
                  (\/ r > h
                   \/ r = h /\ below
                   \/ r = h /\ ~below /\ q % 2 = 1)
            m1 == IF up THEN q + 1 ELSE q
            m == IF m1 = 2^24 THEN 2^23 ELSE m1
            ex == IF m1 = 2^24 THEN e + shift + 1 ELSE e + shift
        IN  IF m = 0 THEN F32Zero
            ELSE IF ex > 104 THEN F32Inf(s)
            ELSE [s |-> s, m |-> m, e |-> ex]

\* an integer literal or an `as f32` cast of an integer below 2^31
F32FromInt(n) ==
    LET a == IF n < 0 THEN -n ELSE n
    IN  F32Round(IF n < 0 THEN 1 ELSE 0, a \div 2^24, a % 2^24, FALSE, 0)

\* `u as f32` for a u32
U32ToF32(u) == F32Round(0, u.hi \div 256, (u.hi % 256) * 65536 + u.lo, FALSE, 0)

F32Neg(x) == IF IsNaN(x) \/ IsZero(x) THEN x ELSE [x EXCEPT !.s = 1 - x.s]

\* |a| < |b| for two values that are not NaN
MagLt(a, b) == a.e < b.e \/ (a.e = b.e /\ a.m < b.m)

F32Lt(a, b) ==
    /\ ~IsNaN(a)
    /\ ~IsNaN(b)
    /\ IF a.s # b.s THEN a.s = 1
       ELSE IF a.s = 0 THEN MagLt(a, b) ELSE MagLt(b, a)
F32Le(a, b) == ~IsNaN(a) /\ ~IsNaN(b) /\ (a = b \/ F32Lt(a, b))
F32Gt(a, b) == F32Lt(b, a)
F32Ge(a, b) == F32Le(b, a)

\* a + b for finite non-zero a and b: the smaller operand is aligned under
\* the larger one, 24 bits further down, and what falls below that is sticky
F32AddFinite(a, b) ==
    LET x == IF MagLt(a, b) THEN b ELSE a
        y == IF MagLt(a, b) THEN a ELSE b
        d == x.e - y.e
        yhi == IF d <= 24 THEN y.m \div 2^d ELSE 0
        ylo == IF d <= 24 THEN (y.m % 2^d) * 2^(24 - d)
               ELSE IF d < 48 THEN y.m \div 2^(d - 24)
               ELSE 0
        yst == d > 24 /\ (d >= 48 \/ y.m % 2^(d - 24) # 0)
    IN  IF x.s = y.s
        THEN F32Round(x.s, x.m + yhi, ylo, yst, x.e - 24)
        ELSE LET low == 0 - ylo - (IF yst THEN 1 ELSE 0)
                 borrow == IF low < 0 THEN 1 ELSE 0
             IN  F32Round(x.s, x.m - yhi - borrow, low + borrow * 2^24, yst,
                          x.e - 24)

F32Add(a, b) ==
    IF IsNaN(a) \/ IsNaN(b) THEN F32NaN
    ELSE IF IsInf(a) THEN (IF IsInf(b) /\ a.s # b.s THEN F32NaN ELSE a)
    ELSE IF IsInf(b) THEN b
    ELSE IF IsZero(a) THEN b
    ELSE IF IsZero(b) THEN a
    ELSE F32AddFinite(a, b)

F32Sub(a, b) == F32Add(a, F32Neg(b))

\* a * b: the 48-bit product of the significands, from 12-bit halves
F32Mul(a, b) ==
    LET s == (a.s + b.s) % 2
    IN  IF IsNaN(a) \/ IsNaN(b) THEN F32NaN
        ELSE IF IsInf(a) \/ IsInf(b)
        THEN (IF IsZero(a) \/ IsZero(b) THEN F32NaN ELSE F32Inf(s))
        ELSE IF IsZero(a) \/ IsZero(b) THEN F32Zero
        ELSE LET a1 == a.m \div 4096
                 a0 == a.m % 4096
                 b1 == b.m \div 4096
                 b0 == b.m % 4096
                 mid == a1 * b0 + a0 * b1
                 low == (mid % 4096) * 4096 + a0 * b0
             IN  F32Round(s, a1 * b1 + mid \div 4096 + low \div 2^24,
                          low % 2^24, FALSE, a.e + b.e)

\* n more quotient bits of r / d by long division: <<quotient, remainder>>
RECURSIVE LongDiv(_, _, _, _)
LongDiv(r, d, q, n) ==
    IF n = 0 THEN <<q, r>>
    ELSE IF 2 * r >= d THEN LongDiv(2 * r - d, d, 2 * q + 1, n - 1)
    ELSE LongDiv(2 * r, d, 2 * q, n - 1)

\* a / b: the significands are normalised and divided to 26 fraction bits,
\* a remainder left over is sticky
F32Div(a, b) ==
    LET s == (a.s + b.s) % 2
    IN  IF IsNaN(a) \/ IsNaN(b) THEN F32NaN
        ELSE IF IsInf(a) THEN (IF IsInf(b) THEN F32NaN ELSE F32Inf(s))
        ELSE IF IsInf(b) THEN F32Zero
        ELSE IF IsZero(b) THEN (IF IsZero(a) THEN F32NaN ELSE F32Inf(s))
        ELSE IF IsZero(a) THEN F32Zero
        ELSE LET ka == 24 - BitLen(a.m)
                 kb == 24 - BitLen(b.m)
                 ma == a.m * 2^ka
                 mb == b.m * 2^kb
                 qr == LongDiv(ma % mb, mb, ma \div mb, 26)
             IN  F32Round(s, qr[1] \div 2^24, qr[1] % 2^24, qr[2] # 0,
                          (a.e - ka) - (b.e - kb) - 26)

\* f32::floor
F32Floor(x) ==
    IF x.e >= 0 \/ IsZero(x) THEN x
    ELSE IF x.e <= -24 THEN (IF x.s = 1 THEN F32FromInt(-1) ELSE F32Zero)
    ELSE LET p == 2^(-x.e)
             n == x.m \div p
             n1 == IF x.s = 1 /\ x.m % p # 0 THEN n + 1 ELSE n
         IN  F32Round(x.s, 0, n1, FALSE, 0)

\* `x as u32`: truncation toward zero, saturating at 0 and u32::MAX, NaN to 0
F32AsU32(x) ==
    IF IsNaN(x) \/ x.s = 1 \/ IsZero(x) THEN U32(0)
    ELSE IF x.e >= 9 THEN U32Max
    ELSE IF x.e >= 0 THEN [hi |-> x.m \div 2^(16 - x.e),
                           lo |-> (x.m % 2^(16 - x.e)) * 2^x.e]
    ELSE IF x.e <= -24 THEN U32(0)
    ELSE U32(x.m \div 2^(-x.e))

\* f32::clamp
F32Clamp(x, lo, hi) == IF F32Lt(x, lo) THEN lo ELSE IF F32Gt(x, hi) THEN hi ELSE x

\* f32::powi for a non-negative exponent, as repeated multiplication
RECURSIVE F32Powi(_, _)
F32Powi(x, n) == IF n = 0 THEN F32FromInt(1) ELSE F32Mul(x, F32Powi(x, n - 1))

Zero == F32Zero
One == F32FromInt(1)
Two == F32FromInt(2)
Half == F32Div(One, Two)
\* the f32 nearest to n / d (an f32 literal, or a time given in the source
\* as a decimal fraction)
F32Lit(n, d) == F32Div(F32FromInt(n), F32FromInt(d))
Tick(k) == F32Lit(k, TimeDen)

(***************************************************************************)
(* scene/animation.rs                                                      *)
(***************************************************************************)
Easing == {"Linear", "EaseInOutQuad", "EaseOutCubic"}

\* Easing::apply
EasingApply(e, t0) ==
    LET t == F32Clamp(t0, Zero, One)
    IN  CASE e = "Linear" -> t
          [] e = "EaseInOutQuad" ->
                IF F32Lt(t, Half)
                THEN F32Mul(F32Mul(Two, t), t)
                ELSE F32Sub(One,
                            F32Div(F32Powi(F32Add(F32Mul(F32FromInt(-2), t), Two), 2),
                                   Two))
          [] e = "EaseOutCubic" -> F32Sub(One, F32Powi(F32Sub(One, t), 3))

Keyframe(time, value, easing_to_next) ==
    [time |-> time, value |-> value, easing_to_next |-> easing_to_next]

\* impl Lerp for f32
LerpF32(a, b, t) == F32Add(a, F32Mul(F32Sub(b, a), t))

\* Track::new with the monotonicity test weakened to "<" (accepts equal times)
TrackNewLax(keyframes) ==
    IF keyframes = <<>>
    THEN [ok |-> FALSE, err |-> "track must have at least one keyframe"]
    ELSE IF \E i \in 2..Len(keyframes) :
                F32Lt(keyframes[i].time, keyframes[i - 1].time)
         THEN [ok |-> FALSE, err |-> "keyframe times must be strictly increasing"]
         ELSE [ok |-> TRUE, keyframes |-> keyframes]

\* Track::new: Err for an empty list or a non-increasing step, else the Track
TrackNew(keyframes) ==
    IF keyframes = <<>>
    THEN [ok |-> FALSE, err |-> "track must have at least one keyframe"]
    ELSE IF \E i \in 2..Len(keyframes) :
                F32Le(keyframes[i].time, keyframes[i - 1].time)
         THEN [ok |-> FALSE, err |-> "keyframe times must be strictly increasing"]
         ELSE [ok |-> TRUE, keyframes |-> keyframes]

\* Track::from_constant
TrackFromConstant(value) ==
    [ok |-> TRUE, keyframes |-> <<Keyframe(Zero, value, "Linear")>>]

\* (ScanIdxShort: the same scan stopping one interval early)
\* the linear scan of Track::sample, on 1-based indices: the first i in
\* i..Len-1 with kfs[i].time <= t < kfs[i+1].time, else the initial idx (1)
RECURSIVE ScanIdxShort(_, _, _)
ScanIdxShort(kfs, t, i) ==
    IF i > Len(kfs) - 2
    THEN 1
    ELSE IF F32Ge(t, kfs[i].time) /\ F32Lt(t, kfs[i + 1].time)
         THEN i
         ELSE ScanIdxShort(kfs, t, i + 1)

RECURSIVE ScanIdx(_, _, _)
ScanIdx(kfs, t, i) ==
    IF i > Len(kfs) - 1
    THEN 1
    ELSE IF F32Ge(t, kfs[i].time) /\ F32Lt(t, kfs[i + 1].time)
         THEN i
         ELSE ScanIdx(kfs, t, i + 1)

\* Track::sample with the clamp at the last keyframe missing
TrackSampleNoLastClamp(keyframes, t) ==
    LET first == keyframes[1]
        idx == ScanIdx(keyframes, t, 1)
        k0 == keyframes[idx]
        k1 == keyframes[IF idx + 1 <= Len(keyframes) THEN idx + 1 ELSE idx]
        span == F32Sub(k1.time, k0.time)
        u == IF F32Gt(span, Zero) THEN F32Div(F32Sub(t, k0.time), span) ELSE Zero
    IN  IF F32Le(t, first.time) THEN first.value
        ELSE LerpF32(k0.value, k1.value, EasingApply(k0.easing_to_next, u))

\* Track::sample on the keyframes of an existing Track, for a time that is
\* not NaN
TrackSample(keyframes, t) ==
    LET first == keyframes[1]
        last == keyframes[Len(keyframes)]
    IN  IF F32Le(t, first.time) THEN first.value
        ELSE IF F32Ge(t, last.time) THEN last.value
        ELSE LET idx == ScanIdx(keyframes, t, 1)
                 k0 == keyframes[idx]
                 k1 == keyframes[idx + 1]
                 span == F32Sub(k1.time, k0.time)
                 u == IF F32Gt(span, Zero)
                      THEN F32Div(F32Sub(t, k0.time), span)
                      ELSE Zero
                 eased == EasingApply(k0.easing_to_next, u)
             IN  LerpF32(k0.value, k1.value, eased)

(***************************************************************************)
(* timeline/clip.rs                                                        *)
(***************************************************************************)
\* Clip::new without the end > duration test
ClipNewNoDurationCheck(start, end, duration) ==
    IF F32Le(duration, Zero)
    THEN [ok |-> FALSE, err |-> "duration must be > 0"]
    ELSE IF F32Lt(start, Zero) \/ F32Le(end, start)
         THEN [ok |-> FALSE,
               err |-> "clip bounds must satisfy 0 <= start < end <= duration"]
         ELSE [ok |-> TRUE, start |-> start, end |-> end]

\* Clip::new (object and transform are carried along unchanged and omitted)
ClipNew(start, end, duration) ==
    IF F32Le(duration, Zero)
    THEN [ok |-> FALSE, err |-> "duration must be > 0"]
    ELSE IF F32Lt(start, Zero) \/ F32Le(end, start) \/ F32Gt(end, duration)
         THEN [ok |-> FALSE,
               err |-> "clip bounds must satisfy 0 <= start < end <= duration"]
         ELSE [ok |-> TRUE, start |-> start, end |-> end]

\* Clip::is_active with an inclusive end boundary
ClipIsActiveClosed(c, t) == F32Ge(t, c.start) /\ F32Le(t, c.end)

\* Clip::is_active
ClipIsActive(c, t) == F32Ge(t, c.start) /\ F32Lt(t, c.end)

\* Clip::local_time: Some(t - start) or None
ClipLocalTime(c, t) ==
    IF ClipIsActive(c, t)
    THEN [some |-> TRUE, v |-> F32Sub(t, c.start)]
    ELSE [some |-> FALSE]

\* Clip::clamped_local_time
ClipClampedLocalTime(c, t) ==
    IF F32Le(t, c.start) THEN Zero
    ELSE IF F32Ge(t, c.end) THEN F32Sub(c.end, c.start)
    ELSE F32Sub(t, c.start)

(***************************************************************************)
(* config.rs                                                               *)
(***************************************************************************)
\* Config::default width and height
Width == 800
Height == 600

\* Config::total_frames
TotalFrames(cfg) == SaturatingMul(cfg.fps, cfg.duration_secs)

\* byte length of one packed RGBA8 frame (write_frame's `expected`,
\* capture_rgba's `len`)
FrameBytes(w, h) == w * h * 4

(***************************************************************************)
(* State.                                                                  *)
(***************************************************************************)
VARIABLES
    pc,                 \* position of the single thread of control
    err,                \* which step reported the error ("" while none)
    window_should_close,\* the window's close-request flag (set by the user)
    \* --- Track / Clip construction and queries
    arg,                \* the argument handed to the constructor
    track,              \* Result<Track<f32>> of Track::new / from_constant
    clip,               \* Result<Clip> of Clip::new
    qt,                 \* time of the last query
    qres,               \* result of the last query
    \* --- RaylibRender::render_timeline_rgba_with_progress
    timeline,           \* [fps, duration] of the Timeline argument
    start_time,
    end_time,
    progress,           \* RenderProgress in effect
    frames,             \* local `frames`
    i,                  \* loop index
    t,                  \* local `t` of the current frame
    rgba,               \* byte length of the captured buffer
    nsampled,           \* number of timeline.sample calls made
    calls,              \* every on_frame invocation, in order: [t, len]
    delivered,          \* the invocations that returned Ok
    last_progress_frame,
    last_100_frame,
    per_frame_secs,     \* "None" or "Some"
    printed,            \* frame indices at which a progress line was printed
    \* --- main.rs with FfmpegEncoder
    config,
    total_frames,
    frame_index,
    frame,              \* byte length of the frame render_frame returned
    stdin,              \* encoder.stdin: "none", "open", "closed"
    child,              \* ffmpeg process: "none", "running", "reaped"
    flushed,            \* stdin.flush() was called
    written             \* bytes that reached ffmpeg's stdin, per write_frame

qVars == <<arg, track, clip, qt, qres>>
rtVars == <<timeline, start_time, end_time, progress, frames, i, t, rgba,
            nsampled, calls, delivered, last_progress_frame, last_100_frame,
            per_frame_secs, printed>>
mainVars == <<config, total_frames, frame_index, frame, stdin, child, flushed,
              written>>
vars == <<pc, err, window_should_close, qVars, rtVars, mainVars>>

NoTrack == [ok |-> FALSE, err |-> "unbuilt"]
NoClip == [ok |-> FALSE, err |-> "unbuilt"]
NoResult == [kind |-> "none"]

Init ==
    /\ pc = "idle"
    /\ err = ""
    /\ window_should_close = FALSE
    /\ arg = [fn |-> "none"]
    /\ track = NoTrack
    /\ clip = NoClip
    /\ qt = Zero
    /\ qres = NoResult
    /\ timeline = [fps |-> U32(0), duration |-> Zero]
    /\ start_time = Zero
    /\ end_time = Zero
    /\ progress = [enabled |-> FALSE, log_every_frames |-> U32(0)]
    /\ frames = U32(0)
    /\ i = U32(0)
    /\ t = Zero
    /\ rgba = 0
    /\ nsampled = 0
    /\ calls = <<>>
    /\ delivered = <<>>
    /\ last_progress_frame = U32(0)
    /\ last_100_frame = U32(0)
    /\ per_frame_secs = "None"
    /\ printed = <<>>
    /\ config = [width |-> 0, height |-> 0, fps |-> U32(0), duration_secs |-> U32(0)]
    /\ total_frames = U32(0)
    /\ frame_index = U32(0)
    /\ frame = 0
    /\ stdin = "none"
    /\ child = "none"
    /\ flushed = FALSE
    /\ written = <<>>

(***************************************************************************)
(* Inputs.                                                                 *)
(***************************************************************************)
\* track values
ValueSet == {F32FromInt(0), F32FromInt(4)}
EasingCycle == <<"Linear", "EaseInOutQuad", "EaseOutCubic">>
\* the grid times, computed once
TickTable == [k \in -1..(MaxTicks + 1) |-> Tick(k)]
\* keyframe lists: times on the grid in any order (sorted or not), values
\* from ValueSet, easings rotating through the three kinds from `base`
KeyframeLists ==
    UNION { { [k \in 1..n |->
                 Keyframe(TickTable[ts[k]], vs[k], EasingCycle[((base + k) % 3) + 1])]
              : ts \in [1..n -> 0..MaxKeyTicks],
                vs \in [1..n -> ValueSet],
                base \in 0..2 }
            : n \in 0..MaxKeys }
\* query times for a Track: the half grid around the keyframe times
TrackTimes == { F32Lit(j, 2 * TimeDen) : j \in -2..(2 * MaxKeyTicks + 2) }
\* Clip::new arguments and query times
\* (start, end, duration) on the grid, and three triples in whole seconds
ClipArgs ==
    { <<TickTable[s], TickTable[e], TickTable[d]>> :
        s \in -1..MaxTicks, e \in 0..(MaxTicks + 1), d \in -1..MaxTicks }
    \cup { <<F32FromInt(5), F32FromInt(3), F32FromInt(10)>>,
           <<F32FromInt(0), F32FromInt(11), F32FromInt(10)>>,
           <<F32FromInt(0), F32FromInt(10), F32FromInt(10)>> }
ClipTimes == { F32Lit(j, 2 * TimeDen) : j \in -1..(2 * MaxTicks + 3) }

(***************************************************************************)
(* Track and Clip: construction and queries.                               *)
(***************************************************************************)
TrackNewCall(keyframes) ==
    /\ pc = "idle"
    /\ pc' = "track"
    /\ arg' = [fn |-> "Track::new", keyframes |-> keyframes]
    /\ track' = TrackNew(keyframes)
    /\ UNCHANGED <<err, window_should_close, clip, qt, qres, rtVars, mainVars>>

TrackFromConstantCall(value) ==
    /\ pc = "idle"
    /\ pc' = "track"
    /\ arg' = [fn |-> "Track::from_constant", value |-> value]
    /\ track' = TrackFromConstant(value)
    /\ UNCHANGED <<err, window_should_close, clip, qt, qres, rtVars, mainVars>>

TrackSampleCall(time) ==
    /\ pc = "track"
    /\ track.ok
    /\ qt' = time
    /\ qres' = [kind |-> "sample", v |-> TrackSample(track.keyframes, time)]
    /\ UNCHANGED <<pc, err, window_should_close, arg, track, clip, rtVars, mainVars>>

ClipNewCall(start, end, duration) ==
    /\ pc = "idle"
    /\ pc' = "clip"
    /\ arg' = [fn |-> "Clip::new", start |-> start, end |-> end, duration |-> duration]
    /\ clip' = ClipNew(start, end, duration)
    /\ UNCHANGED <<err, window_should_close, track, qt, qres, rtVars, mainVars>>

ClipQueryCall(time) ==
    /\ pc = "clip"
    /\ clip.ok
    /\ qt' = time
    /\ qres' = [kind |-> "clip",
                active |-> ClipIsActive(clip, time),
                local |-> ClipLocalTime(clip, time),
                clamped |-> ClipClampedLocalTime(clip, time)]
    /\ UNCHANGED <<pc, err, window_should_close, arg, track, clip, rtVars, mainVars>>

(***************************************************************************)
(* backend/raylib_render.rs                                                *)
(***************************************************************************)
\* RenderProgress::default().log_every_frames and the ETA window
DefaultLogEvery == 100
EtaWindow == 100

RenderProgressDefault ==
    [enabled |-> FALSE, log_every_frames |-> U32(DefaultLogEvery)]
ProgressOptions ==
    {RenderProgressDefault} \cup
    { [enabled |-> TRUE, log_every_frames |-> U32(n)] : n \in 1..2 }

\* a Timeline of whole-second duration and a window in whole seconds
WholeSeconds(fps, duration, start, end, prog) ==
    <<[fps |-> U32(fps), duration |-> F32FromInt(duration)],
      F32FromInt(start), F32FromInt(end), prog>>

\* (timeline, start_time, end_time, progress): every grid window against
\* every grid timeline, and beside them
\*   - two 30 fps runs from 0, one of them long enough to fill the 100-frame
\*     ETA window with progress output enabled,
\*   - a 10 fps window ending at 0.7f32, whose product with the fps rounds
\*     up to 7.0,
\*   - windows of a few frames that start at 2^24 s (1 fps) and at 2^20 s
\*     (30 fps), where the spacing of f32 values exceeds one frame period,
\*     each one ending at the timeline's duration and inside it
RenderArgs ==
    { <<[fps |-> U32(f), duration |-> TickTable[k]], TickTable[s], TickTable[e], p>> :
        f \in 0..MaxFps, k \in 1..MaxTicks, s \in -1..MaxTicks,
        e \in 0..(MaxTicks + 1), p \in ProgressOptions }
    \cup { WholeSeconds(30, 2, 0, 2, RenderProgressDefault),
           WholeSeconds(30, 4, 0, 4,
                        [enabled |-> TRUE,
                         log_every_frames |-> U32(DefaultLogEvery)]),
           <<[fps |-> U32(10), duration |-> One], Zero, F32Lit(7, 10),
             RenderProgressDefault>>,
           WholeSeconds(1, 16777220, 16777216, 16777220, RenderProgressDefault),
           WholeSeconds(1, 16777224, 16777216, 16777220, RenderProgressDefault),
           WholeSeconds(30, 1048578, 1048576, 1048578, RenderProgressDefault),
           WholeSeconds(30, 1048580, 1048576, 1048578, RenderProgressDefault) }

\* the validation without its end_time > duration test
WindowInvalidNoDuration(start, end, duration) ==
    F32Lt(start, Zero) \/ F32Le(end, start)

\* the validation of render_timeline_rgba_with_progress
WindowInvalid(start, end, duration) ==
    F32Lt(start, Zero) \/ F32Le(end, start) \/ F32Gt(end, duration)

\* let frames = ((end_time - start_time) * fps as f32).floor() as u32
FrameCount(start, end, fps) ==
    F32AsU32(F32Floor(F32Mul(F32Sub(end, start), U32ToF32(fps))))

\* let t = start_time + i as f32 / fps as f32
FrameTime(start, idx, fps) ==
    F32Add(start, F32Div(U32ToF32(idx), U32ToF32(fps)))

\* Timeline::sample succeeds exactly for 0 <= t < duration
TimelineSampleOk(tl, time) == F32Ge(time, Zero) /\ F32Lt(time, tl.duration)

\* what LoadImageFromTexture (and ImageFormat) can hand back
CaptureImages ==
    { [data_null |-> a, null_after |-> b, width |-> w, height |-> h] :
        a \in BOOLEAN, b \in BOOLEAN, w \in {Width, Width - 1},
        h \in {Height, Height + 1} }

\* capture_rgba: Err, or the byte length of the copied buffer
CaptureRgba(image, expected_w, expected_h) ==
    IF image.data_null
    THEN [ok |-> FALSE, err |-> "raylib returned null image data"]
    ELSE IF image.null_after
    THEN [ok |-> FALSE, err |-> "image data was null after format conversion"]
    ELSE IF image.width # expected_w \/ image.height # expected_h
    THEN [ok |-> FALSE, err |-> "capture size mismatch"]
    ELSE [ok |-> TRUE, len |-> FrameBytes(image.width, image.height)]

\* outcomes of render_scene_to_rgba: resource preparation or drawing fails,
\* or the surface is captured
RenderOutcomes ==
    { [stage |-> "preload"], [stage |-> "draw"] } \cup
    { [stage |-> "capture", image |-> im] : im \in CaptureImages }

RenderSceneToRgba(outcome) ==
    IF outcome.stage = "capture"
    THEN CaptureRgba(outcome.image, Width, Height)
    ELSE [ok |-> FALSE, err |-> outcome.stage]

RenderTimelineCall(tl, start, end, prog) ==
    /\ pc = "idle"
    /\ timeline' = tl
    /\ start_time' = start
    /\ end_time' = end
    /\ progress' = prog
    /\ IF WindowInvalid(start, end, tl.duration)
       THEN /\ pc' = "rt_err"
            /\ err' = "window"
            /\ frames' = frames
       ELSE /\ pc' = "rt_loop"
            /\ err' = err
            /\ frames' = FrameCount(start, end, tl.fps)
    /\ UNCHANGED <<window_should_close, qVars, i, t, rgba, nsampled, calls,
                   delivered, last_progress_frame, last_100_frame,
                   per_frame_secs, printed, mainVars>>

\* for i in 0..frames { let t = ...; let scene = timeline.sample(t)?; ...
RtLoopHead ==
    /\ pc = "rt_loop"
    /\ IF U32Lt(i, frames)
       THEN /\ t' = FrameTime(start_time, i, timeline.fps)
            /\ nsampled' = nsampled + 1
            /\ IF TimelineSampleOk(timeline, t')
               THEN pc' = "rt_render" /\ err' = err
               ELSE pc' = "rt_err" /\ err' = "sample"
       ELSE /\ pc' = "rt_ok"
            /\ UNCHANGED <<t, nsampled, err>>
    /\ UNCHANGED <<window_should_close, qVars, timeline, start_time, end_time,
                   progress, frames, i, rgba, calls, delivered,
                   last_progress_frame, last_100_frame, per_frame_secs,
                   printed, mainVars>>

\* a failed render or capture that skips the frame instead of aborting
RtRenderSkipFrame(outcome) ==
    /\ pc = "rt_render"
    /\ LET r == RenderSceneToRgba(outcome)
       IN  IF r.ok
           THEN pc' = "rt_sink" /\ rgba' = r.len /\ err' = err /\ i' = i
           ELSE pc' = "rt_loop" /\ rgba' = rgba /\ err' = "render" /\ i' = U32Succ(i)
    /\ UNCHANGED <<window_should_close, qVars, timeline, start_time, end_time,
                   progress, frames, t, nsampled, calls, delivered,
                   last_progress_frame, last_100_frame, per_frame_secs,
                   printed, mainVars>>

\* let rgba = self.render_scene_to_rgba(&scene)?;
RtRender(outcome) ==
    /\ pc = "rt_render"
    /\ LET r == RenderSceneToRgba(outcome)
       IN  IF r.ok
           THEN pc' = "rt_sink" /\ rgba' = r.len /\ err' = err
           ELSE pc' = "rt_err" /\ rgba' = rgba /\ err' = "render"
    /\ UNCHANGED <<window_should_close, qVars, timeline, start_time, end_time,
                   progress, frames, i, t, nsampled, calls, delivered,
                   last_progress_frame, last_100_frame, per_frame_secs,
                   printed, mainVars>>

\* on_frame(t, &rgba)?; then the progress bookkeeping and the loop increment
RtSink(sink_ok) ==
    /\ pc = "rt_sink"
    /\ calls' = Append(calls, [t |-> t, len |-> rgba])
    /\ IF sink_ok
       THEN LET frame_idx == U32Succ(i)
                hit100 == progress.enabled
                          /\ U32Ge(U32Sub(frame_idx, last_100_frame), U32(EtaWindow))
                hitLog == progress.enabled
                          /\ U32Ge(U32Sub(frame_idx, last_progress_frame),
                                   progress.log_every_frames)
            IN  /\ delivered' = Append(delivered, [t |-> t, len |-> rgba])
                /\ last_100_frame' = IF hit100 THEN frame_idx ELSE last_100_frame
                /\ per_frame_secs' = IF hit100 THEN "Some" ELSE per_frame_secs
                /\ last_progress_frame' =
                       IF hitLog THEN frame_idx ELSE last_progress_frame
                /\ printed' = IF hitLog THEN Append(printed, frame_idx) ELSE printed
                /\ i' = U32Succ(i)
                /\ pc' = "rt_loop"
                /\ err' = err
       ELSE /\ pc' = "rt_err"
            /\ err' = "sink"
            /\ UNCHANGED <<delivered, last_100_frame, per_frame_secs,
                           last_progress_frame, printed, i>>
    /\ UNCHANGED <<window_should_close, qVars, timeline, start_time, end_time,
                   progress, frames, t, rgba, nsampled, mainVars>>

(***************************************************************************)
(* main.rs driving BouncingBallRenderer and encoder/ffmpeg.rs              *)
(***************************************************************************)
Configs ==
    { [width |-> Width, height |-> Height, fps |-> U32(f),
       duration_secs |-> U32(d)] :
        f \in 0..MaxFps, d \in 0..MaxDurSecs }

\* frames render_frame can hand back: the packed size, or a short buffer
FrameLens(cfg) == { FrameBytes(cfg.width, cfg.height),
                    FrameBytes(cfg.width, cfg.height) - 4 }
\* Ok, or Err after `partial` bytes of the frame went into the pipe
WriteOutcomes(len) ==
    { [ok |-> TRUE, partial |-> len] } \cup
    { [ok |-> FALSE, partial |-> n] : n \in {0, len \div 2} }

\* what happens to the FfmpegEncoder value when main returns early with `?`:
\* its fields are dropped, which closes an open ChildStdin; dropping a Child
\* neither kills nor waits for the process
DropStdin(s) == IF s = "open" THEN "closed" ELSE s

\* let config = Config::default(); total_frames == 0 => bail
MainStart(cfg) ==
    /\ pc = "idle"
    /\ config' = cfg
    /\ total_frames' = TotalFrames(cfg)
    /\ IF total_frames' = U32(0)
       THEN pc' = "m_err" /\ err' = "config"
       ELSE pc' = "m_renderer_new" /\ err' = err
    /\ UNCHANGED <<window_should_close, qVars, rtVars, frame_index, frame,
                   stdin, child, flushed, written>>

\* let mut renderer = BouncingBallRenderer::new(&config)?;
\* The window it opens is a new one: no close request is pending on it.
RendererNew(ok) ==
    /\ pc = "m_renderer_new"
    /\ IF ok
       THEN pc' = "m_encoder_start" /\ err' = err
       ELSE pc' = "m_err" /\ err' = "renderer_new"
    /\ window_should_close' = FALSE
    /\ UNCHANGED <<qVars, rtVars, mainVars>>

\* let mut encoder = FfmpegEncoder::start(&config)?;
EncoderStart(spawned) ==
    /\ pc = "m_encoder_start"
    /\ IF spawned
       THEN /\ pc' = "m_loop"
            /\ err' = err
            /\ child' = "running"
            /\ stdin' = "open"
       ELSE /\ pc' = "m_err"
            /\ err' = "spawn"
            /\ UNCHANGED <<child, stdin>>
    /\ UNCHANGED <<window_should_close, qVars, rtVars, config, total_frames,
                   frame_index, frame, flushed, written>>

\* for frame_index in 0..total_frames { if window_should_close() { break; }
MainLoopHead ==
    /\ pc = "m_loop"
    /\ pc' = IF U32Lt(frame_index, total_frames) /\ ~window_should_close
             THEN "m_render"
             ELSE "m_finish"
    /\ UNCHANGED <<err, window_should_close, qVars, rtVars, mainVars>>

\* let frame = renderer.render_frame(frame_index, total_frames)?;
MainRenderFrame(outcome) ==
    /\ pc = "m_render"
    /\ IF outcome.ok
       THEN /\ pc' = "m_write"
            /\ frame' = outcome.len
            /\ UNCHANGED <<err, stdin>>
       ELSE /\ pc' = "m_err"
            /\ err' = "render"
            /\ stdin' = DropStdin(stdin)
            /\ frame' = frame
    /\ UNCHANGED <<window_should_close, qVars, rtVars, config, total_frames,
                   frame_index, child, flushed, written>>

\* encoder.write_frame(&frame)?;  (FfmpegEncoder::write_frame, then the
\* loop increment; on Err main returns and the encoder is dropped)
MainWriteFrame(wr) ==
    /\ pc = "m_write"
    /\ IF frame # FrameBytes(config.width, config.height)
       THEN /\ pc' = "m_err" /\ err' = "frame_size"
            /\ stdin' = DropStdin(stdin)
            /\ UNCHANGED <<written, frame_index>>
       ELSE IF stdin # "open"
       THEN /\ pc' = "m_err" /\ err' = "stdin_closed"
            /\ UNCHANGED <<stdin, written, frame_index>>
       ELSE IF wr.ok
       THEN /\ written' = Append(written, frame)
            /\ frame_index' = U32Succ(frame_index)
            /\ pc' = "m_loop"
            /\ UNCHANGED <<err, stdin>>
       ELSE /\ written' = Append(written, wr.partial)
            /\ pc' = "m_err" /\ err' = "write"
            /\ stdin' = DropStdin(stdin)
            /\ frame_index' = frame_index
    /\ UNCHANGED <<window_should_close, qVars, rtVars, config, total_frames,
                   frame, child, flushed>>

\* encoder.finish()?; Ok(())
\*   FfmpegEncoder::finish: take and flush stdin (dropping it closes the
\*   pipe), wait for the child, bail on a non-success status
MainFinish(outcome) ==
    /\ pc = "m_finish"
    /\ flushed' = (flushed \/ stdin = "open")
    /\ stdin' = IF stdin = "open" THEN "closed" ELSE stdin
    /\ CASE outcome = "wait_failed" ->
                pc' = "m_err" /\ err' = "wait" /\ child' = child
         [] outcome = "status_failure" ->
                pc' = "m_err" /\ err' = "status" /\ child' = "reaped"
         [] outcome = "success" ->
                pc' = "m_ok" /\ err' = err /\ child' = "reaped"
    /\ UNCHANGED <<window_should_close, qVars, rtVars, config, total_frames,
                   frame_index, frame, written>>

(***************************************************************************)
(* Environment: the user asks the window to close while it exists.  main's *)
(* renderer lives from BouncingBallRenderer::new until main returns, which *)
(* is after encoder.finish(); the RaylibRender of a pipeline call exists   *)
(* before the call ("idle") and outlives it.                               *)
(***************************************************************************)
WindowOpen ==
    pc \in {"idle", "m_encoder_start", "m_loop", "m_render", "m_write",
            "m_finish", "rt_loop", "rt_render", "rt_sink", "rt_ok", "rt_err"}

WindowCloseRequest ==
    /\ WindowOpen
    /\ ~window_should_close
    /\ window_should_close' = TRUE
    /\ UNCHANGED <<pc, err, qVars, rtVars, mainVars>>

(***************************************************************************)
(* Specification.                                                          *)
(***************************************************************************)
Next ==
    \/ \E kfs \in KeyframeLists : TrackNewCall(kfs)
    \/ \E v \in ValueSet : TrackFromConstantCall(v)
    \/ \E time \in TrackTimes : TrackSampleCall(time)
    \/ \E a \in ClipArgs : ClipNewCall(a[1], a[2], a[3])
    \/ \E time \in ClipTimes : ClipQueryCall(time)
    \/ \E a \in RenderArgs : RenderTimelineCall(a[1], a[2], a[3], a[4])
    \/ RtLoopHead
    \/ \E o \in RenderOutcomes : RtRender(o)
    \/ \E ok \in BOOLEAN : RtSink(ok)
    \/ \E cfg \in Configs : MainStart(cfg)
    \/ \E ok \in BOOLEAN : RendererNew(ok)
    \/ \E ok \in BOOLEAN : EncoderStart(ok)
    \/ MainLoopHead
    \/ \E o \in {[ok |-> FALSE, len |-> 0]} \cup
                { [ok |-> TRUE, len |-> n] : n \in FrameLens(config) } :
          MainRenderFrame(o)
    \/ \E wr \in WriteOutcomes(frame) : MainWriteFrame(wr)
    \/ \E o \in {"wait_failed", "status_failure", "success"} : MainFinish(o)
    \/ WindowCloseRequest

Spec == Init /\ [][Next]_vars

(***************************************************************************)
(* Properties.  The arithmetic a claim names is evaluated in f32, as the   *)
(* program evaluates it.                                                   *)
(***************************************************************************)
RtStates == {"rt_loop", "rt_render", "rt_sink", "rt_ok", "rt_err"}
InRenderTimeline == pc \in RtStates
WindowAccepted == InRenderTimeline /\ err # "window"

\* floor((end_time - start_time) * fps)
LawFrameCount ==
    U32Int(F32AsU32(F32Floor(F32Mul(F32Sub(end_time, start_time),
                                    U32ToF32(timeline.fps)))))

\* x = start_time + k / fps
IsLawFrameTime(x, k) ==
    x = F32Add(start_time, F32Div(F32FromInt(k), U32ToF32(timeline.fps)))

\* the first n entries of a sink log are frames 0..n-1 with whole buffers
IsFramePrefix(log, n) ==
    /\ Len(log) = n
    /\ \A k \in 1..n : IsLawFrameTime(log[k].t, k - 1)
                       /\ log[k].len = Width * Height * 4

\* C1: in an accepted window, while no step has failed, the sink invocations
\* are frames 0, 1, 2, ... at timestamps start_time + k/fps, each timestamp
\* strictly above the one before, never more than
\* floor((end_time - start_time) * fps) of them, and exactly that many once
\* the run has returned Ok.
C1_FrameCountLaw ==
    (WindowAccepted /\ err = "") =>
        /\ Len(calls) <= LawFrameCount
        /\ \A k \in 1..Len(calls) : IsLawFrameTime(calls[k].t, k - 1)
        /\ \A k \in 1..(Len(calls) - 1) : F32Lt(calls[k].t, calls[k + 1].t)
        /\ (pc = "rt_ok" => Len(calls) = LawFrameCount)

AtFrameBoundary ==
    \/ pc = "m_loop" /\ U32Lt(frame_index, total_frames)
    \/ pc = "rt_loop" /\ U32Lt(i, frames)

\* C2: when the should-stop signal is set at a frame boundary, the next step
\* ends the loop without an error, produces no frame and invokes no sink,
\* and what was delivered before stays delivered whole.
C2_StopAtFrameBoundary ==
    [][ (AtFrameBoundary /\ window_should_close) =>
            /\ pc' \in {"m_finish", "rt_ok"}
            /\ err' = ""
            /\ nsampled' = nsampled
            /\ calls' = calls
            /\ written' = written
            /\ \A k \in 1..Len(written') :
                   written'[k] = FrameBytes(config.width, config.height)
            /\ \A k \in 1..Len(delivered') : delivered'[k].len = Width * Height * 4
      ]_vars

\* C3: a failed frame write and a non-success encoder status both end the
\* run with an error, and after a failed write the encoder's input has been
\* flushed and closed and the process waited for by the time the error is
\* reported.
C3_WriteFailureCleanShutdown ==
    /\ (err \in {"write", "status"} => pc = "m_err")
    /\ (pc = "m_err" /\ err = "write" =>
            flushed /\ stdin = "closed" /\ child = "reaped")

\* C4: the call fails in validation exactly when start_time < 0, end_time <=
\* start_time or end_time > timeline.duration, and a call that failed there
\* has sampled nothing and invoked no sink.
C4_WindowValidation ==
    InRenderTimeline =>
        LET bad == \/ F32Lt(start_time, Zero)
                   \/ F32Le(end_time, start_time)
                   \/ F32Gt(end_time, timeline.duration)
        IN  /\ bad <=> (pc = "rt_err" /\ err = "window")
            /\ (bad => nsampled = 0 /\ calls = <<>> /\ delivered = <<>>)

\* a call rejected only because end_time exceeds the timeline's duration
C4_Witness ==
    /\ pc = "rt_err"
    /\ err = "window"
    /\ F32Ge(start_time, Zero)
    /\ F32Lt(start_time, end_time)
    /\ F32Gt(end_time, timeline.duration)

\* C5: once sampling, rendering/capture or the sink has failed at frame i the
\* run is over with that error: frames 0..i-1 and no others were delivered,
\* in order, and the sink was invoked for frame i only if it is the sink
\* that failed.
C5_FailureAbortsRun ==
    (InRenderTimeline /\ err \in {"sample", "render", "sink"}) =>
        LET n == U32Int(i)
        IN  /\ pc = "rt_err"
            /\ U32Lt(i, frames)
            /\ IsFramePrefix(delivered, n)
            /\ \A k \in 1..n : calls[k] = delivered[k]
            /\ Len(calls) = IF err = "sink" THEN n + 1 ELSE n
            /\ (err = "sink" => IsLawFrameTime(calls[n + 1].t, n))

\* a capture failure at the third frame of a run
C5_Witness ==
    /\ pc = "rt_err"
    /\ err = "render"
    /\ i = U32(2)
    /\ Len(delivered) = 2
    /\ U32Lt(U32(3), frames)

TrackSampled == pc = "track" /\ track.ok /\ qres.kind = "sample"

\* C6: a sample at or before the first keyframe is the first value, a
\* sample at or after the last keyframe is the last value, and a track of
\* one keyframe yields that keyframe's value at every time.
C6_ClampingLaw ==
    TrackSampled =>
        LET kfs == track.keyframes
            first == kfs[1]
            last == kfs[Len(kfs)]
        IN  /\ (F32Le(qt, first.time) => qres.v = first.value)
            /\ (F32Ge(qt, last.time) => qres.v = last.value)
            /\ (Len(kfs) = 1 => qres.v = first.value)

\* a three-keyframe track whose values differ, sampled after its last keyframe
C6_Witness ==
    /\ TrackSampled
    /\ Len(track.keyframes) = 3
    /\ track.keyframes[2].value # track.keyframes[3].value
    /\ F32Gt(qt, track.keyframes[3].time)

\* C7: for t strictly between consecutive keyframes k0 and k1 the sample is
\* lerp(k0.value, k1.value, k0.easing_to_next.apply(u)) with
\* u = (t - k0.time) / (k1.time - k0.time); on the Linear track
\* [(0, v0), (1, v1)] the sample at 0.5 is the midpoint (v0 + v1) / 2.
C7_InterpolationLaw ==
    TrackSampled =>
        LET kfs == track.keyframes
        IN  /\ \A j \in 1..(Len(kfs) - 1) :
                   (F32Lt(kfs[j].time, qt) /\ F32Lt(qt, kfs[j + 1].time)) =>
                       LET k0 == kfs[j]
                           k1 == kfs[j + 1]
                           u == F32Div(F32Sub(qt, k0.time),
                                       F32Sub(k1.time, k0.time))
                       IN  qres.v = LerpF32(k0.value, k1.value,
                                            EasingApply(k0.easing_to_next, u))
            /\ (/\ Len(kfs) = 2
                /\ kfs[1].time = Zero
                /\ kfs[2].time = One
                /\ kfs[1].easing_to_next = "Linear"
                /\ qt = Half)
                   => qres.v = F32Div(F32Add(kfs[1].value, kfs[2].value), Two)

\* a sample strictly inside the second interval of a three-keyframe track,
\* eased by a non-linear curve between two different values
C7_Witness ==
    /\ TrackSampled
    /\ Len(track.keyframes) = 3
    /\ F32Lt(track.keyframes[2].time, qt)
    /\ F32Lt(qt, track.keyframes[3].time)
    /\ track.keyframes[2].easing_to_next # "Linear"
    /\ track.keyframes[2].value # track.keyframes[3].value
    /\ track.keyframes[1].value # track.keyframes[2].value

\* strictly increasing keyframe times
StrictlyIncreasing(kfs) ==
    \A j \in 2..Len(kfs) : F32Gt(kfs[j].time, kfs[j - 1].time)

\* C8: Track::new answers Err for an empty list and for a list with a
\* keyframe time not above its predecessor's; a Track that exists, from
\* Track::new or Track::from_constant, is non-empty with strictly
\* increasing times.
C8_TrackConstruction ==
    /\ (pc = "track" /\ arg.fn = "Track::new" =>
            /\ (arg.keyframes = <<>> => ~track.ok)
            /\ (~StrictlyIncreasing(arg.keyframes) => ~track.ok)
            /\ (track.ok => track.keyframes = arg.keyframes))
    /\ (pc = "track" /\ arg.fn = "Track::from_constant" => track.ok)
    /\ (track.ok => track.keyframes # <<>> /\ StrictlyIncreasing(track.keyframes))

\* Track::new rejected two keyframes at the same time
C8_Witness ==
    /\ pc = "track"
    /\ arg.fn = "Track::new"
    /\ Len(arg.keyframes) = 2
    /\ arg.keyframes[1].time = Zero
    /\ arg.keyframes[2].time = Zero
    /\ ~track.ok

\* C9: Clip::new fails when start < 0, end <= start or end > duration,
\* succeeds otherwise for a positive duration, and every Clip it returns
\* has 0 <= start < end <= duration.
C9_ClipConstruction ==
    (pc = "clip" /\ arg.fn = "Clip::new") =>
        LET bad == \/ F32Lt(arg.start, Zero)
                   \/ F32Le(arg.end, arg.start)
                   \/ F32Gt(arg.end, arg.duration)
        IN  /\ (bad => ~clip.ok)
            /\ (~bad /\ F32Gt(arg.duration, Zero) => clip.ok)
            /\ (clip.ok => /\ clip.start = arg.start
                           /\ clip.end = arg.end
                           /\ ~bad)
            /\ (arg.start = F32FromInt(5) /\ arg.end = F32FromInt(3)
                    /\ arg.duration = F32FromInt(10) => ~clip.ok)
            /\ (arg.start = F32FromInt(0) /\ arg.end = F32FromInt(11)
                    /\ arg.duration = F32FromInt(10) => ~clip.ok)
            /\ (arg.start = F32FromInt(0) /\ arg.end = F32FromInt(10)
                    /\ arg.duration = F32FromInt(10) => clip.ok)

\* Clip::new(0, 11, .., 10) was rejected
C9_Witness ==
    /\ pc = "clip"
    /\ arg.fn = "Clip::new"
    /\ arg.start = F32FromInt(0)
    /\ arg.end = F32FromInt(11)
    /\ arg.duration = F32FromInt(10)
    /\ ~clip.ok

ClipQueried == pc = "clip" /\ clip.ok /\ qres.kind = "clip"

\* the clips Clip::new builds from the explored arguments
BuiltClips == { c \in { ClipNew(a[1], a[2], a[3]) : a \in ClipArgs } : c.ok }

\* C10: is_active(t) is start <= t < end, so a clip and a clip that starts
\* where it ends (or ends where it starts) are never both active, and
\* local_time(t) is Some(t - start) when active and None otherwise.
C10_HalfOpenActivity ==
    ClipQueried =>
        LET in == F32Le(clip.start, qt) /\ F32Lt(qt, clip.end)
        IN  /\ qres.active <=> in
            /\ qres.local.some <=> in
            /\ (in => qres.local.v = F32Sub(qt, clip.start))
            /\ \A b \in BuiltClips :
                   (b.start = clip.end \/ b.end = clip.start) =>
                       ~(ClipIsActive(clip, qt) /\ ClipIsActive(b, qt))

\* the clip [1, 2) asked at t = 2 is not active
C10_Witness ==
    /\ ClipQueried
    /\ clip.start = F32FromInt(1)
    /\ clip.end = F32FromInt(2)
    /\ qt = F32FromInt(2)
    /\ ~qres.active
    /\ ~qres.local.some

\* C11: in an accepted window (0 <= start_time, end_time <= duration) every
\* frame timestamp start_time + k/fps handed to Timeline::sample lies in
\* [start_time, end_time), hence inside [0, duration), and the run never
\* stops with an out-of-range sampling error.
C11_SamplePreconditionHolds ==
    WindowAccepted =>
        /\ F32Ge(start_time, Zero)
        /\ F32Le(end_time, timeline.duration)
        /\ (nsampled > 0 =>
                /\ IsLawFrameTime(t, nsampled - 1)
                /\ F32Le(start_time, t)
                /\ F32Lt(t, end_time)
                /\ F32Ge(t, Zero)
                /\ F32Lt(t, timeline.duration))
        /\ err # "sample"

====
